---- MODULE Spec2Model ----
(***************************************************************************)
(* Model of BitBucketBranchSanitizer.py: the repository loop of main(),    *)
(* the scan-day classification (filter_branches), the state store          *)
(* (read_from_json / write_to_json), the delete-day reconciliation         *)
(* (process_branches_for_deletion) with its delete sequence, and the       *)
(* hosting service the program talks to.                                   *)
(*                                                                         *)
(* Strings that the code takes apart are sequences of tokens: a branch     *)
(* name "release/1.0" is <<"release", "/", "1.0">>, so split("/")[0] and   *)
(* the substring test on a repository name are computed, not looked up.    *)
(* A date is the triple <<year, month, day>>; all dates of the model lie   *)
(* in January 1970, where day n of the epoch is <<1970, 1, n + 1>>.        *)
(* A row is the 4-element list [name, commit, inactive days, status].      *)
(*                                                                         *)
(* Spec starts at the repository loop of main() (line 404), once for a     *)
(* scan-day run and once for a delete-day run whose state.json is what a   *)
(* scan-day run of the day before wrote.  SpecStore applies write_to_json  *)
(* to arbitrary bounded documents and result lists.  SpecCrash takes       *)
(* write_to_json apart into the open, the chunks json.dump writes and the  *)
(* close, with a process that may be killed in between.  SpecStartup is    *)
(* the start of main() before the loop, lines 382-392.                     *)
(***************************************************************************)
EXTENDS Integers, Sequences, FiniteSets, TLC

VARIABLES
    today,          \* date.today(), as days since 1970-01-01
    live,           \* hosting service: repository -> branch name -> commit (0: no such branch)
    perms,          \* hosting service: repository -> sequence of restriction rules
    fileExists,     \* os.path.exists("results/state.json")
    data,           \* the document in results/state.json: repository -> rows
    pc,             \* position of main(): "loop", "batch", "exited"
    repoIdx,        \* index of the repository the loop is at
    branches,       \* branches.json()["values"] of the current repository
    tasks,          \* the inputs of the coroutines handed to asyncio.gather
    taskIdx,        \* the coroutine that runs next (they run in input order)
    taskPc,         \* position inside the running delete-day coroutine
    taskDelta,      \* its local variable delta
    pendingRules,   \* ids of the matching restriction rules still to delete
    taskResult,     \* per finished coroutine: its return value (<<>> is None)
    taskExc,        \* per finished coroutine: the exception it raised ("" if none)
    results,        \* main()'s variable results after the batch
    logfile,        \* the purging log: sequence of <<repository, lines>>
    templateBody,   \* _template_data["body"]
    exitCode,       \* -1 while running, 0 normal end, 1 sys.exit(1)
    lastError,      \* the exception logged at line 462 ("" if none)
    calls,          \* remote calls issued in this run, in order
    envEvents,      \* number of hosting-service events so far
    lastWrite,      \* the last write_to_json call: its arguments and the document before it
    resultsDir,     \* os.path.exists("results")
    disk            \* the text of results/state.json, as the chunks json.dump wrote

vars == <<today, live, perms, fileExists, data, pc, repoIdx, branches, tasks,
          taskIdx, taskPc, taskDelta, pendingRules, taskResult, taskExc,
          results, logfile, templateBody, exitCode, lastError, calls,
          envEvents, lastWrite, resultsDir, disk>>

---------------------------------------------------------------------------
(* Bounds *)

MaxEnvEvents == 1       \* hosting-service events (pushes, external deletes) per run
MaxRows == 2            \* longest result list handed to write_to_json in SpecStore
MaxWrites == 3          \* write_to_json calls in a row in SpecStore

---------------------------------------------------------------------------
(* Names *)

Master   == <<"master">>
Develop  == <<"develop">>
Release1 == <<"release", "/", "1.0">>
FeatureX == <<"feature", "/", "x">>
Wip      == <<"wip">>

BranchNames == {Master, Release1, FeatureX, Wip}
BranchOrder == <<Master, Release1, FeatureX, Wip>>   \* order of the service's listing

RepoApp == <<"app">>
RepoOld == <<"deprecated", "-", "lib">>
RepoWeb == <<"web">>

Commits == {1, 2, 3, 4}          \* commit references; 0 stands for "no such branch"

RETAINED == "RETAINED"
MARKED   == "MARKED FOR DELETION"
DELETED  == "DELETED"

None == <<>>

---------------------------------------------------------------------------
(* Dates *)

MsPerSecond   == 1000
SecondsPerDay == 86400
FridayWeekday == 4

\* committerTimestamp of each commit, in milliseconds since the epoch:
\* 1: 1970-01-02 00:00:00.000   2: 1970-01-06 23:59:59.999
\* 3: 1970-01-09 12:00:00.000   4: 1970-01-10 00:00:00.001
committerTimestamp(commit_id) ==
    CASE commit_id = 1 -> 1 * SecondsPerDay * MsPerSecond
      [] commit_id = 2 -> 5 * SecondsPerDay * MsPerSecond + (SecondsPerDay * MsPerSecond - 1)
      [] commit_id = 3 -> 8 * SecondsPerDay * MsPerSecond + (SecondsPerDay * MsPerSecond) \div 2
      [] commit_id = 4 -> 9 * SecondsPerDay * MsPerSecond + 1

\* datetime.utcfromtimestamp(seconds).strftime("%Y-%m-%d")
utcfromtimestamp_strftime(epoch_seconds) ==
    <<1970, 1, (epoch_seconds \div SecondsPerDay) + 1>>

\* str(date.today())
str_date_today(t) == <<1970, 1, t + 1>>

\* date(year, month, day) from the three fields of the string
format_date(input_date) ==
    [year |-> input_date[1], month |-> input_date[2], day |-> input_date[3]]

\* (a - b).days for two dates of the same month
days_between(a, b) == a.day - b.day

\* date.weekday(): Monday is 0; 1970-01-01 was a Thursday
weekday(t) == (t + 3) % 7

get_last_commit_date(commit_id) ==
    utcfromtimestamp_strftime(committerTimestamp(commit_id) \div MsPerSecond)

\* (format_date(str(date.today())) - format_date(last_commit_date)).days
inactive_days(t, last_commit_date) ==
    days_between(format_date(str_date_today(t)), format_date(last_commit_date))

---------------------------------------------------------------------------
(* Configuration *)

repositories == <<RepoApp, RepoOld, RepoWeb>>

config ==
    [branches_to_exclude |-> <<Master, Develop>> \o <<Wip>>,
     thresholds |-> (<<"release">> :> 2) @@ (<<"hotfix">> :> 2) @@ (<<"default">> :> 3)]

InList(x, list) == \E i \in 1..Len(list) : list[i] = x

\* "deprecated" in repository
is_deprecated(repository) == \E i \in 1..Len(repository) : repository[i] = "deprecated"

\* branch_name.split("/")[0]
split_first(branch_name) ==
    IF \E k \in 1..Len(branch_name) : branch_name[k] = "/"
    THEN SubSeq(branch_name, 1,
                (CHOOSE k \in 1..Len(branch_name) :
                    /\ branch_name[k] = "/"
                    /\ \A j \in 1..(k - 1) : branch_name[j] # "/") - 1)
    ELSE branch_name

get_threshold(branch_name, cfg) ==
    LET branch_prefix == split_first(branch_name)
    IN  IF branch_prefix \in DOMAIN cfg.thresholds
        THEN cfg.thresholds[branch_prefix]
        ELSE cfg.thresholds[<<"default">>]

---------------------------------------------------------------------------
(* Scan day: filter_branches *)

\* line 320 with < for <=
classify_exclusive(delta, threshold) ==
    IF delta < threshold THEN RETAINED ELSE MARKED

\* line 320
classify(delta, threshold) ==
    IF delta <= threshold THEN RETAINED ELSE MARKED

\* line 303 against master and develop only, the configured names forgotten
is_excluded_builtin(branch_info, cfg) == InList(branch_info.displayId, <<Master, Develop>>)

\* line 303
is_excluded(branch_info, cfg) == InList(branch_info.displayId, cfg.branches_to_exclude)

\* filter_branches when its commit lookup answers; None for an excluded branch
filter_branches(cfg, branch_info, t) ==
    IF ~is_excluded(branch_info, cfg)
    THEN LET threshold == get_threshold(branch_info.displayId, cfg)
             last_commit_date == get_last_commit_date(branch_info.latestCommit)
             delta == inactive_days(t, last_commit_date)
             status == classify(delta, threshold)
         IN  <<branch_info.displayId, branch_info.latestCommit, delta, status>>
    ELSE None

\* line 432 over the results in reverse order
filter_not_none_reversed(rs) ==
    SelectSeq([k \in 1..Len(rs) |-> rs[Len(rs) + 1 - k]], LAMBDA item : Len(item) # 0)

\* list(filter(lambda item: item is not None, results))
filter_not_none(rs) == SelectSeq(rs, LAMBDA item : Len(item) # 0)

---------------------------------------------------------------------------
(* State store *)

EmptyDoc == [r \in {} |-> <<>>]

\* read_from_json: the parsed document, or None when the file is missing
read_from_json(exists, doc) ==
    IF exists THEN [none |-> FALSE, value |-> doc]
    ELSE [none |-> TRUE, value |-> EmptyDoc]

\* write_to_json without the test of line 238: the entry is always replaced
write_to_json_overwrite(exists, doc, repository, rs) ==
    IF exists
    THEN [r \in (DOMAIN doc) \cup {repository} |->
             IF r = repository THEN rs ELSE doc[r]]
    ELSE [r \in {repository} |-> rs]

\* write_to_json: the document left in results/state.json
write_to_json(exists, doc, repository, rs) ==
    IF exists
    THEN IF (repository \notin DOMAIN read_from_json(exists, doc).value)
            \/ (Len(read_from_json(exists, doc).value[repository]) # Len(rs))
         THEN [r \in (DOMAIN doc) \cup {repository} |->
                  IF r = repository THEN rs ELSE doc[r]]
         ELSE doc
    ELSE [r \in {repository} |-> rs]

\* json.dump(data, json_file), line 244: the text goes to the file chunk by chunk,
\* the opening brace, one chunk per repository entry, the closing brace
Chunk(kind, key, rows) == [kind |-> kind, key |-> key, rows |-> rows]

json_dump(doc) ==
    LET keys == SelectSeq(repositories, LAMBDA r : r \in DOMAIN doc)
    IN  <<Chunk("{", <<>>, <<>>)>>
        \o [k \in 1..Len(keys) |-> Chunk("entry", keys[k], doc[keys[k]])]
        \o <<Chunk("}", <<>>, <<>>)>>

\* json.load, line 230: only a complete text parses
json_load_ok(text) ==
    /\ Len(text) >= 2
    /\ text[1].kind = "{"
    /\ text[Len(text)].kind = "}"

json_load(text) ==
    LET keys == {text[k].key : k \in 2..(Len(text) - 1)}
    IN  [r \in keys |-> text[CHOOSE k \in 2..(Len(text) - 1) : text[k].key = r].rows]

---------------------------------------------------------------------------
(* Report *)

ReportHeader    == <<"BRANCH", "LAST COMMIT", "INACTIVE (days)", "STATUS">>
ReportSeparator == <<"------", "-----------", "---------------", "------">>

\* format_data: header line, separator line, one line per row
format_data(data_list) == <<ReportHeader, ReportSeparator>> \o data_list

\* "retained" in i[3].lower()
is_retained_row(row) == row[4] = RETAINED

count_rows(rs, P(_)) == Cardinality({i \in 1..Len(rs) : P(rs[i])})

\* generate_report: the log file after the call
report_logfile(repository, rs, log) ==
    IF Len(format_data(rs)) > 2
    THEN Append(log, <<repository, format_data(rs)>>)
    ELSE log

\* generate_report: _template_data["body"] after the call
report_body(repository, rs, body) ==
    LET retained == count_rows(rs, is_retained_row)
        deleted  == Len(rs) - retained
    IN  IF Len(format_data(rs)) > 2 /\ deleted > 0
        THEN Append(body, <<repository, Len(rs), retained, deleted>>)
        ELSE body

---------------------------------------------------------------------------
(* Hosting service *)

\* GET .../branches: the branches that exist, in the service's order
list_branches(lv) ==
    LET present == SelectSeq(BranchOrder, LAMBDA n : lv[n] # 0)
    IN  [i \in 1..Len(present) |-> [displayId |-> present[i], latestCommit |-> lv[present[i]]]]

\* a remote call as the service sees it; for a branch delete, tip is the commit the
\* branch points to when the call arrives (0 for the other calls)
Call(op, repo, branch, commit, ok) ==
    [op |-> op, repository |-> repo, branch |-> branch, commit |-> commit, ok |-> ok,
     tip |-> IF op = "branch_delete" THEN live[repo][branch] ELSE 0]

---------------------------------------------------------------------------
(* main(): flags and the state a run starts its repository loop in *)

is_friday == weekday(today) = FridayWeekday
process_branches_flag == ~is_friday
delete_branches_flag == is_friday

\* The rows a complete scan of one repository writes
scan_results(lv, t) ==
    LET listing == list_branches(lv)
    IN  filter_not_none([i \in 1..Len(listing) |-> filter_branches(config, listing[i], t)])

\* The document a scan-day run leaves after the first n repositories of the list
RECURSIVE scan_document(_, _, _)
scan_document(n, lv, t) ==
    IF n = 0 THEN [exists |-> FALSE, doc |-> EmptyDoc]
    ELSE LET before == scan_document(n - 1, lv, t)
             repository == repositories[n]
         IN  IF is_deprecated(repository) THEN before
             ELSE [exists |-> TRUE,
                   doc |-> write_to_json(before.exists, before.doc, repository,
                                         scan_results(lv[repository], t))]

\* The days a run starts on: Thursday 1970-01-08 and Friday 1970-01-09
RunDays == {7, 8}

InitLive ==
    {lv \in [{RepoApp, RepoWeb} -> [BranchNames -> Commits \cup {0}]] :
        /\ lv[RepoApp][Master] \in {1, 4}
        /\ lv[RepoApp][Release1] # 0
        /\ lv[RepoApp][FeatureX] # 0
        /\ lv[RepoApp][Wip] = 0
        /\ lv[RepoWeb][Master] = 0
        /\ lv[RepoWeb][Release1] = 0
        /\ lv[RepoWeb][FeatureX] \in {1, 3}
        /\ lv[RepoWeb][Wip] = 1}

InitPerms ==
    [r \in {RepoApp, RepoWeb} |->
        IF r = RepoApp
        THEN <<[id |-> 1, displayId |-> Release1],
               [id |-> 2, displayId |-> Master],
               [id |-> 3, displayId |-> Release1]>>
        ELSE <<>>]

NoWrite == [n |-> 0, repository |-> <<>>, results |-> <<>>,
            existed |-> FALSE, before |-> EmptyDoc,
            prevRepository |-> <<>>, prevLen |-> 0]

InitRun ==
    /\ pc = "loop"
    /\ repoIdx = 1
    /\ branches = <<>>
    /\ tasks = <<>>
    /\ taskIdx = 1
    /\ taskPc = "start"
    /\ taskDelta = 0
    /\ pendingRules = <<>>
    /\ taskResult = <<>>
    /\ taskExc = <<>>
    /\ results = <<>>
    /\ logfile = <<>>
    /\ templateBody = <<>>
    /\ exitCode = -1
    /\ lastError = ""
    /\ calls = <<>>
    /\ envEvents = 0
    /\ lastWrite = NoWrite
    /\ resultsDir = TRUE
    /\ disk = IF fileExists THEN json_dump(data) ELSE <<>>

Init ==
    /\ live \in InitLive
    /\ perms = InitPerms
    /\ today \in RunDays
    /\ IF weekday(today) = FridayWeekday
       THEN \E n \in 0..Len(repositories) :
                /\ fileExists = scan_document(n, live, today - 1).exists
                /\ data = scan_document(n, live, today - 1).doc
       ELSE /\ fileExists = FALSE
            /\ data = EmptyDoc
    /\ InitRun

---------------------------------------------------------------------------
(* main(): the repository loop, lines 404-451, and the handler of 461-463 *)

repository == repositories[repoIdx]

\* except Exception as err: logging.error(err); sys.exit(1)
Abort(err) ==
    /\ pc' = "exited"
    /\ exitCode' = 1
    /\ lastError' = err

\* lines 405-407
SkipDeprecated ==
    /\ pc = "loop"
    /\ repoIdx <= Len(repositories)
    /\ is_deprecated(repository)
    /\ repoIdx' = repoIdx + 1
    /\ UNCHANGED <<resultsDir, disk, today, live, perms, fileExists, data, pc, branches, tasks,
                   taskIdx, taskPc, taskDelta, pendingRules, taskResult, taskExc,
                   results, logfile, templateBody, exitCode, lastError, calls,
                   envEvents, lastWrite>>

\* lines 409-416 and, on delete day, line 436: the branch listing answers
ListBranches ==
    /\ pc = "loop"
    /\ repoIdx <= Len(repositories)
    /\ ~is_deprecated(repository)
    /\ branches' = list_branches(live[repository])
    /\ calls' = Append(calls, Call("list_branches", repository, <<>>, 0, TRUE))
    /\ taskIdx' = 1
    /\ taskPc' = "start"
    /\ taskResult' = <<>>
    /\ taskExc' = <<>>
    /\ IF process_branches_flag
       THEN /\ tasks' = branches'
            /\ pc' = "batch"
            /\ UNCHANGED <<exitCode, lastError>>
       ELSE IF read_from_json(fileExists, data).none
            THEN /\ Abort("TypeError")
                 /\ UNCHANGED tasks
            ELSE IF repository \notin DOMAIN read_from_json(fileExists, data).value
                 THEN /\ Abort("KeyError")
                      /\ UNCHANGED tasks
                 ELSE /\ tasks' = read_from_json(fileExists, data).value[repository]
                      /\ pc' = "batch"
                      /\ UNCHANGED <<exitCode, lastError>>
    /\ UNCHANGED <<resultsDir, disk, today, live, perms, fileExists, data, repoIdx, taskDelta,
                   pendingRules, results, logfile, templateBody, envEvents, lastWrite>>

\* lines 410-413: the listing does not answer with a "values" list
ListBranchesFails ==
    /\ pc = "loop"
    /\ repoIdx <= Len(repositories)
    /\ ~is_deprecated(repository)
    /\ calls' = Append(calls, Call("list_branches", repository, <<>>, 0, FALSE))
    /\ Abort("KeyError")
    /\ UNCHANGED <<resultsDir, disk, today, live, perms, fileExists, data, repoIdx, branches, tasks,
                   taskIdx, taskPc, taskDelta, pendingRules, taskResult, taskExc,
                   results, logfile, templateBody, envEvents, lastWrite>>

\* the for loop of line 404 is exhausted: main() returns
RunEnds ==
    /\ pc = "loop"
    /\ repoIdx > Len(repositories)
    /\ pc' = "exited"
    /\ exitCode' = 0
    /\ UNCHANGED <<resultsDir, disk, today, live, perms, fileExists, data, repoIdx, branches, tasks,
                   taskIdx, taskPc, taskDelta, pendingRules, taskResult, taskExc,
                   results, logfile, templateBody, lastError, calls,
                   envEvents, lastWrite>>

\* A coroutine ends: its result or its exception is recorded, the next one runs
TaskReturns(value) ==
    /\ taskResult' = Append(taskResult, value)
    /\ taskExc' = Append(taskExc, "")
    /\ taskIdx' = taskIdx + 1
    /\ taskPc' = "start"

TaskRaises(err) ==
    /\ taskResult' = Append(taskResult, None)
    /\ taskExc' = Append(taskExc, err)
    /\ taskIdx' = taskIdx + 1
    /\ taskPc' = "start"

\* filter_branches with the rows so far written to the state by the coroutine itself
ScanTask_persists ==
    /\ pc = "batch"
    /\ process_branches_flag
    /\ taskIdx <= Len(tasks)
    /\ LET branch_info == tasks[taskIdx]
       IN  /\ TaskReturns(filter_branches(config, branch_info, today))
           /\ calls' = IF is_excluded(branch_info, config) THEN calls
                       ELSE Append(calls, Call("commit_lookup", repository,
                                               branch_info.displayId,
                                               branch_info.latestCommit, TRUE))
    /\ data' = write_to_json(fileExists, data, repository, filter_not_none(taskResult'))
    /\ fileExists' = TRUE
    /\ UNCHANGED <<resultsDir, disk, today, live, perms, pc, repoIdx, branches,
                   tasks, taskDelta, pendingRules, results, logfile, templateBody,
                   exitCode, lastError, envEvents, lastWrite>>

\* filter_branches, lines 300-321; the commit lookup answers
ScanTask ==
    /\ pc = "batch"
    /\ process_branches_flag
    /\ taskIdx <= Len(tasks)
    /\ LET branch_info == tasks[taskIdx]
       IN  /\ TaskReturns(filter_branches(config, branch_info, today))
           /\ calls' = IF is_excluded(branch_info, config) THEN calls
                       ELSE Append(calls, Call("commit_lookup", repository,
                                               branch_info.displayId,
                                               branch_info.latestCommit, TRUE))
    /\ UNCHANGED <<resultsDir, disk, today, live, perms, fileExists, data, pc, repoIdx, branches,
                   tasks, taskDelta, pendingRules, results, logfile, templateBody,
                   exitCode, lastError, envEvents, lastWrite>>

\* filter_branches: the commit lookup has no committerTimestamp (line 296)
ScanTaskLookupFails ==
    /\ pc = "batch"
    /\ process_branches_flag
    /\ taskIdx <= Len(tasks)
    /\ LET branch_info == tasks[taskIdx]
       IN  /\ ~is_excluded(branch_info, config)
           /\ TaskRaises("KeyError")
           /\ calls' = Append(calls, Call("commit_lookup", repository,
                                          branch_info.displayId,
                                          branch_info.latestCommit, FALSE))
    /\ UNCHANGED <<resultsDir, disk, today, live, perms, fileExists, data, pc, repoIdx, branches,
                   tasks, taskDelta, pendingRules, results, logfile, templateBody,
                   exitCode, lastError, envEvents, lastWrite>>

---------------------------------------------------------------------------
(* Delete day: process_branches_for_deletion, lines 324-366 *)

\* lines 346-348 on both branches of line 346: the stored value, whatever the commit
reconciled_delta_stored(branch_info, _b, t) ==
    branch_info[3]

\* lines 349-354 without the comparison of line 346: always recomputed
reconciled_delta_recomputed(branch_info, _b, t) ==
    inactive_days(t, get_last_commit_date(_b.latestCommit))

\* lines 346-354: the inactivity the reconciler uses for a branch found in the listing
reconciled_delta(branch_info, _b, t) ==
    IF _b.latestCommit = branch_info[2]
    THEN branch_info[3]
    ELSE inactive_days(t, get_last_commit_date(_b.latestCommit))

\* line 357 with >= for >
delete_condition_ge(delta, threshold, status) ==
    delta >= threshold /\ status = MARKED

\* line 357
delete_condition(delta, threshold, status) ==
    delta > threshold /\ status = MARKED

\* lines 359-364: the body of the branch-delete request
delete_body(branch_name, latest_commit) ==
    [name |-> branch_name, endPoint |-> latest_commit]

\* line 345: the positions of the listing that carry the branch's name
listing_matches(branch_name) ==
    {k \in 1..Len(branches) : branches[k].displayId = branch_name}

\* lines 356-366 once delta is known: go on to the delete sequence, or return the row
Decide(branch_info, delta) ==
    IF delete_condition(delta, get_threshold(branch_info[1], config), branch_info[4])
    THEN /\ taskPc' = "perm_list"
         /\ taskDelta' = delta
         /\ UNCHANGED <<taskIdx, taskResult, taskExc>>
    ELSE /\ TaskReturns(<<branch_info[1], branch_info[2], delta, branch_info[4]>>)
         /\ UNCHANGED taskDelta

\* lines 332-357: the listing is searched, delta is taken or recomputed
Reconcile ==
    /\ pc = "batch"
    /\ delete_branches_flag
    /\ taskIdx <= Len(tasks)
    /\ taskPc = "start"
    /\ LET branch_info == tasks[taskIdx]
           found == listing_matches(branch_info[1])
       IN  IF found = {}
           THEN \* delta was never assigned: line 357 raises
                /\ TaskRaises("UnboundLocalError")
                /\ UNCHANGED <<taskDelta, calls>>
           ELSE LET _b == branches[CHOOSE k \in found : TRUE]
                IN  /\ Decide(branch_info, reconciled_delta(branch_info, _b, today))
                    /\ calls' = IF _b.latestCommit = branch_info[2] THEN calls
                                ELSE Append(calls, Call("commit_lookup", repository,
                                                        branch_info[1], _b.latestCommit, TRUE))
    /\ UNCHANGED <<resultsDir, disk, today, live, perms, fileExists, data, pc, repoIdx, branches,
                   tasks, pendingRules, results, logfile, templateBody,
                   exitCode, lastError, envEvents, lastWrite>>

\* lines 349-351: the lookup for the changed commit has no committerTimestamp
ReconcileLookupFails ==
    /\ pc = "batch"
    /\ delete_branches_flag
    /\ taskIdx <= Len(tasks)
    /\ taskPc = "start"
    /\ LET branch_info == tasks[taskIdx]
           found == listing_matches(branch_info[1])
       IN  /\ found # {}
           /\ LET _b == branches[CHOOSE k \in found : TRUE]
              IN  /\ _b.latestCommit # branch_info[2]
                  /\ calls' = Append(calls, Call("commit_lookup", repository,
                                                 branch_info[1], _b.latestCommit, FALSE))
    /\ TaskRaises("KeyError")
    /\ UNCHANGED <<resultsDir, disk, today, live, perms, fileExists, data, pc, repoIdx, branches,
                   tasks, taskDelta, pendingRules, results, logfile, templateBody,
                   exitCode, lastError, envEvents, lastWrite>>

\* delete_branch_permissions, lines 200-206: the rules are listed (status 200)
matching_rules(rules, branch_name) ==
    LET hit == SelectSeq(rules, LAMBDA i : i.displayId = branch_name)
    IN  [k \in 1..Len(hit) |-> hit[k].id]

PermissionList ==
    /\ pc = "batch"
    /\ taskPc = "perm_list"
    /\ LET branch_name == tasks[taskIdx][1]
       IN  /\ pendingRules' = matching_rules(perms[repository], branch_name)
           /\ calls' = Append(calls, Call("permission_list", repository, branch_name, 0, TRUE))
    /\ taskPc' = IF pendingRules' = <<>> THEN "branch_delete" ELSE "perm_delete"
    /\ UNCHANGED <<resultsDir, disk, today, live, perms, fileExists, data, pc, repoIdx, branches,
                   tasks, taskIdx, taskDelta, taskResult, taskExc, results, logfile,
                   templateBody, exitCode, lastError, envEvents, lastWrite>>

\* lines 202-203: the listing of the rules answers with another status
PermissionListFails ==
    /\ pc = "batch"
    /\ taskPc = "perm_list"
    /\ calls' = Append(calls, Call("permission_list", repository, tasks[taskIdx][1], 0, FALSE))
    /\ TaskRaises("ValueError")
    /\ UNCHANGED <<resultsDir, disk, today, live, perms, fileExists, data, pc, repoIdx, branches,
                   tasks, taskDelta, pendingRules, results, logfile, templateBody,
                   exitCode, lastError, envEvents, lastWrite>>

\* lines 207-208: one matching rule is deleted (status 204)
PermissionDelete ==
    /\ pc = "batch"
    /\ taskPc = "perm_delete"
    /\ LET rule == Head(pendingRules)
       IN  /\ perms' = [perms EXCEPT ![repository] = SelectSeq(@, LAMBDA i : i.id # rule)]
           /\ calls' = Append(calls, Call("permission_delete", repository,
                                          tasks[taskIdx][1], rule, TRUE))
    /\ pendingRules' = Tail(pendingRules)
    /\ taskPc' = IF pendingRules' = <<>> THEN "branch_delete" ELSE "perm_delete"
    /\ UNCHANGED <<resultsDir, disk, today, live, fileExists, data, pc, repoIdx, branches,
                   tasks, taskIdx, taskDelta, taskResult, taskExc, results, logfile,
                   templateBody, exitCode, lastError, envEvents, lastWrite>>

\* lines 208-211 with the failed status ignored: the loop goes on
PermissionDeleteFails_ignored ==
    /\ pc = "batch"
    /\ taskPc = "perm_delete"
    /\ calls' = Append(calls, Call("permission_delete", repository,
                                   tasks[taskIdx][1], Head(pendingRules), FALSE))
    /\ pendingRules' = Tail(pendingRules)
    /\ taskPc' = IF pendingRules' = <<>> THEN "branch_delete" ELSE "perm_delete"
    /\ UNCHANGED <<resultsDir, disk, today, live, perms, fileExists, data, pc, repoIdx, branches,
                   tasks, taskIdx, taskDelta, taskResult, taskExc, results, logfile,
                   templateBody, exitCode, lastError, envEvents, lastWrite>>

\* lines 208-211: the rule's delete answers with another status
PermissionDeleteFails ==
    /\ pc = "batch"
    /\ taskPc = "perm_delete"
    /\ calls' = Append(calls, Call("permission_delete", repository,
                                   tasks[taskIdx][1], Head(pendingRules), FALSE))
    /\ TaskRaises("ValueError")
    /\ UNCHANGED <<resultsDir, disk, today, live, perms, fileExists, data, pc, repoIdx, branches,
                   tasks, taskDelta, pendingRules, results, logfile, templateBody,
                   exitCode, lastError, envEvents, lastWrite>>

\* delete_branch, lines 187-196, called at line 365: the service answers 204
BranchDelete ==
    /\ pc = "batch"
    /\ taskPc = "branch_delete"
    /\ LET branch_info == tasks[taskIdx]
           body == delete_body(branch_info[1], branch_info[2])
       IN  /\ live' = [live EXCEPT ![repository][body.name] = 0]
           /\ calls' = Append(calls, Call("branch_delete", repository,
                                          body.name, body.endPoint, TRUE))
           /\ TaskReturns(<<branch_info[1], branch_info[2], taskDelta, DELETED>>)
    /\ UNCHANGED <<resultsDir, disk, today, perms, fileExists, data, pc, repoIdx, branches,
                   tasks, taskDelta, pendingRules, results, logfile, templateBody,
                   exitCode, lastError, envEvents, lastWrite>>

\* lines 191-194: the service answers with another status
BranchDeleteFails ==
    /\ pc = "batch"
    /\ taskPc = "branch_delete"
    /\ LET branch_info == tasks[taskIdx]
           body == delete_body(branch_info[1], branch_info[2])
       IN  calls' = Append(calls, Call("branch_delete", repository,
                                       body.name, body.endPoint, FALSE))
    /\ TaskRaises("ValueError")
    /\ UNCHANGED <<resultsDir, disk, today, live, perms, fileExists, data, pc, repoIdx, branches,
                   tasks, taskDelta, pendingRules, results, logfile, templateBody,
                   exitCode, lastError, envEvents, lastWrite>>

---------------------------------------------------------------------------
(* main(): asyncio.gather has run every coroutine; lines 419-451 go on *)

raised == {i \in 1..Len(taskExc) : taskExc[i] # ""}

first_raised == CHOOSE i \in raised : \A j \in raised : i <= j

WriteRecord(repo, rs) ==
    [n |-> lastWrite.n + 1, repository |-> repo, results |-> rs,
     existed |-> fileExists, before |-> data,
     prevRepository |-> lastWrite.repository, prevLen |-> Len(lastWrite.results)]

\* lines 419-451 with the outcome rows of delete day put into the state document
GatherDone_persists_outcomes ==
    /\ pc = "batch"
    /\ taskIdx > Len(tasks)
    /\ IF raised # {}
       THEN \* gather re-raises the first exception; main() ends in the handler
            /\ Abort(taskExc[first_raised])
            /\ UNCHANGED <<fileExists, data, repoIdx, results, logfile,
                           templateBody, lastWrite>>
       ELSE /\ results' = IF process_branches_flag
                          THEN filter_not_none(taskResult)
                          ELSE taskResult
            /\ IF process_branches_flag
               THEN /\ data' = write_to_json(fileExists, data, repository, results')
                    /\ fileExists' = TRUE
                    /\ lastWrite' = WriteRecord(repository, results')
               ELSE /\ data' = [data EXCEPT ![repository] = results']
                    /\ UNCHANGED <<fileExists, lastWrite>>
            /\ logfile' = report_logfile(repository, results', logfile)
            /\ templateBody' = report_body(repository, results', templateBody)
            /\ repoIdx' = repoIdx + 1
            /\ pc' = "loop"
            /\ UNCHANGED <<exitCode, lastError>>
    /\ disk' = IF fileExists' THEN json_dump(data') ELSE disk
    /\ UNCHANGED <<resultsDir, today, live, perms, branches, tasks, taskIdx, taskPc,
                   taskDelta, pendingRules, taskResult, taskExc, calls, envEvents>>

\* lines 419-451
GatherDone ==
    /\ pc = "batch"
    /\ taskIdx > Len(tasks)
    /\ IF raised # {}
       THEN \* gather re-raises the first exception; main() ends in the handler
            /\ Abort(taskExc[first_raised])
            /\ UNCHANGED <<fileExists, data, repoIdx, results, logfile,
                           templateBody, lastWrite>>
       ELSE /\ results' = IF process_branches_flag
                          THEN filter_not_none(taskResult)
                          ELSE taskResult
            /\ IF process_branches_flag
               THEN /\ data' = write_to_json(fileExists, data, repository, results')
                    /\ fileExists' = TRUE
                    /\ lastWrite' = WriteRecord(repository, results')
               ELSE UNCHANGED <<fileExists, data, lastWrite>>
            /\ logfile' = report_logfile(repository, results', logfile)
            /\ templateBody' = report_body(repository, results', templateBody)
            /\ repoIdx' = repoIdx + 1
            /\ pc' = "loop"
            /\ UNCHANGED <<exitCode, lastError>>
    /\ disk' = IF fileExists' THEN json_dump(data') ELSE disk
    /\ UNCHANGED <<resultsDir, today, live, perms, branches, tasks, taskIdx, taskPc,
                   taskDelta, pendingRules, taskResult, taskExc, calls, envEvents>>

---------------------------------------------------------------------------
(* Hosting service: what other users do while the run goes on *)

\* somebody pushes: the branch now points to another commit
Push ==
    /\ pc # "exited"
    /\ envEvents < MaxEnvEvents
    /\ \E r \in DOMAIN live, b \in BranchNames, c \in Commits :
          /\ live[r][b] # 0
          /\ live[r][b] # c
          /\ live' = [live EXCEPT ![r][b] = c]
    /\ envEvents' = envEvents + 1
    /\ UNCHANGED <<resultsDir, disk, today, perms, fileExists, data, pc, repoIdx, branches, tasks,
                   taskIdx, taskPc, taskDelta, pendingRules, taskResult, taskExc,
                   results, logfile, templateBody, exitCode, lastError, calls,
                   lastWrite>>

\* somebody deletes a branch by other means
ExternalDelete ==
    /\ pc # "exited"
    /\ envEvents < MaxEnvEvents
    /\ \E r \in DOMAIN live, b \in BranchNames :
          /\ live[r][b] # 0
          /\ live' = [live EXCEPT ![r][b] = 0]
    /\ envEvents' = envEvents + 1
    /\ UNCHANGED <<resultsDir, disk, today, perms, fileExists, data, pc, repoIdx, branches, tasks,
                   taskIdx, taskPc, taskDelta, pendingRules, taskResult, taskExc,
                   results, logfile, templateBody, exitCode, lastError, calls,
                   lastWrite>>

---------------------------------------------------------------------------

Next ==
    \/ SkipDeprecated
    \/ ListBranches
    \/ ListBranchesFails
    \/ RunEnds
    \/ ScanTask
    \/ ScanTaskLookupFails
    \/ Reconcile
    \/ ReconcileLookupFails
    \/ PermissionList
    \/ PermissionListFails
    \/ PermissionDelete
    \/ PermissionDeleteFails
    \/ BranchDelete
    \/ BranchDeleteFails
    \/ GatherDone
    \/ Push
    \/ ExternalDelete

Spec == Init /\ [][Next]_vars

---------------------------------------------------------------------------
(* The state store on its own: write_to_json applied to any document *)

StoreRows == {<<Release1, 1, 6, MARKED>>, <<FeatureX, 2, 2, RETAINED>>}

BoundedSeq(S, n) == UNION {[1..k -> S] : k \in 0..n}

StoreDocs ==
    UNION {[D -> BoundedSeq(StoreRows, MaxRows)] : D \in SUBSET {RepoApp, RepoWeb}}

InitStore ==
    /\ today \in RunDays
    /\ live \in {lv \in InitLive : lv[RepoApp][Master] = 1 /\ lv[RepoApp][Release1] = 1
                                   /\ lv[RepoApp][FeatureX] = 1 /\ lv[RepoWeb][FeatureX] = 1}
    /\ perms = InitPerms
    /\ fileExists \in BOOLEAN
    /\ data \in IF fileExists THEN StoreDocs ELSE {EmptyDoc}
    /\ InitRun

\* write_to_json(repository, results), lines 234-244
StoreWrite ==
    /\ lastWrite.n < MaxWrites
    /\ \E repo \in {RepoApp, RepoWeb}, rs \in BoundedSeq(StoreRows, MaxRows) :
          /\ data' = write_to_json(fileExists, data, repo, rs)
          /\ fileExists' = TRUE
          /\ lastWrite' = WriteRecord(repo, rs)
    /\ disk' = json_dump(data')
    /\ UNCHANGED <<resultsDir, today, live, perms, pc, repoIdx, branches, tasks, taskIdx,
                   taskPc, taskDelta, pendingRules, taskResult, taskExc, results, logfile,
                   templateBody, exitCode, lastError, calls, envEvents>>

NextStore == StoreWrite

SpecStore == InitStore /\ [][NextStore]_vars

---------------------------------------------------------------------------
(* The write of the state file step by step, and a process that is killed  *)
(* in the middle of it: write_to_json, lines 234-244.  Here data is the    *)
(* document of the last completed write or read.                           *)

\* lines 235-241: the dict that write_to_json is about to dump
pending_document ==
    write_to_json(lastWrite.existed, lastWrite.before,
                  lastWrite.repository, lastWrite.results)

\* lines 235-243: the dict is built, open(json_file_name, "w") truncates the file
WriteOpen ==
    /\ pc = "loop"
    /\ lastWrite.n < MaxWrites
    /\ \E repo \in {RepoApp, RepoWeb}, rs \in BoundedSeq(StoreRows, MaxRows) :
          lastWrite' = WriteRecord(repo, rs)
    /\ fileExists' = TRUE
    /\ disk' = <<>>
    /\ pc' = "dump"
    /\ UNCHANGED <<resultsDir, today, live, perms, data, repoIdx, branches, tasks,
                   taskIdx, taskPc, taskDelta, pendingRules, taskResult, taskExc,
                   results, logfile, templateBody, exitCode, lastError, calls,
                   envEvents>>

\* line 244: json.dump writes the next chunk of the text
WriteChunk ==
    /\ pc = "dump"
    /\ Len(disk) < Len(json_dump(pending_document))
    /\ disk' = Append(disk, json_dump(pending_document)[Len(disk) + 1])
    /\ UNCHANGED <<resultsDir, today, live, perms, fileExists, data, pc, repoIdx,
                   branches, tasks, taskIdx, taskPc, taskDelta, pendingRules,
                   taskResult, taskExc, results, logfile, templateBody, exitCode,
                   lastError, calls, envEvents, lastWrite>>

\* the with block of line 243 is left: the file is closed, write_to_json returns
WriteClose ==
    /\ pc = "dump"
    /\ Len(disk) = Len(json_dump(pending_document))
    /\ data' = pending_document
    /\ pc' = "loop"
    /\ UNCHANGED <<resultsDir, disk, today, live, perms, fileExists, repoIdx,
                   branches, tasks, taskIdx, taskPc, taskDelta, pendingRules,
                   taskResult, taskExc, results, logfile, templateBody, exitCode,
                   lastError, calls, envEvents, lastWrite>>

\* the process is killed between the open and the close
Kill ==
    /\ pc = "dump"
    /\ pc' = "killed"
    /\ UNCHANGED <<resultsDir, disk, today, live, perms, fileExists, data, repoIdx,
                   branches, tasks, taskIdx, taskPc, taskDelta, pendingRules,
                   taskResult, taskExc, results, logfile, templateBody, exitCode,
                   lastError, calls, envEvents, lastWrite>>

NextCrash ==
    \/ WriteOpen
    \/ WriteChunk
    \/ WriteClose
    \/ Kill

SpecCrash == InitStore /\ [][NextCrash]_vars

---------------------------------------------------------------------------
(* The start of a run: main(), lines 382-392, up to the repository loop *)

StartupDays == {2, 3, 4, 5, 6, 7, 8}    \* Saturday to Friday

InitStartup ==
    /\ today \in StartupDays
    /\ live \in {lv \in InitLive : lv[RepoApp][Master] = 1 /\ lv[RepoApp][Release1] = 1
                                   /\ lv[RepoApp][FeatureX] = 1 /\ lv[RepoWeb][FeatureX] = 1}
    /\ perms = InitPerms
    /\ resultsDir \in BOOLEAN
    /\ fileExists \in IF resultsDir THEN BOOLEAN ELSE {FALSE}
    /\ data \in IF fileExists THEN StoreDocs ELSE {EmptyDoc}
    /\ disk = IF fileExists THEN json_dump(data) ELSE <<>>
    /\ pc = "start"
    /\ repoIdx = 1
    /\ branches = <<>>
    /\ tasks = <<>>
    /\ taskIdx = 1
    /\ taskPc = "start"
    /\ taskDelta = 0
    /\ pendingRules = <<>>
    /\ taskResult = <<>>
    /\ taskExc = <<>>
    /\ results = <<>>
    /\ logfile = <<>>
    /\ templateBody = <<>>
    /\ exitCode = -1
    /\ lastError = ""
    /\ calls = <<>>
    /\ envEvents = 0
    /\ lastWrite = NoWrite

\* lines 382-389: the flags are set; on scan day an existing results directory is removed
RemoveResults ==
    /\ pc = "start"
    /\ IF resultsDir /\ ~delete_branches_flag
       THEN /\ resultsDir' = FALSE
            /\ fileExists' = FALSE
            /\ data' = EmptyDoc
            /\ disk' = <<>>
       ELSE UNCHANGED <<resultsDir, fileExists, data, disk>>
    /\ pc' = "mkdir"
    /\ UNCHANGED <<today, live, perms, repoIdx, branches, tasks, taskIdx, taskPc,
                   taskDelta, pendingRules, taskResult, taskExc, results, logfile,
                   templateBody, exitCode, lastError, calls, envEvents, lastWrite>>

\* line 391: os.path is a module, the call os.path("results") raises TypeError;
\* line 392 and the rest of main() are not reached
CheckResultsDir ==
    /\ pc = "mkdir"
    /\ Abort("TypeError")
    /\ UNCHANGED <<resultsDir, disk, today, live, perms, fileExists, data, repoIdx,
                   branches, tasks, taskIdx, taskPc, taskDelta, pendingRules,
                   taskResult, taskExc, results, logfile, templateBody, calls,
                   envEvents, lastWrite>>

NextStartup ==
    \/ RemoveResults
    \/ CheckResultsDir

SpecStartup == InitStartup /\ [][NextStartup]_vars

---------------------------------------------------------------------------
(* What the claims are stated in: the expected values, written out *)

\* the retention period of each branch name under config
ExpectedThreshold(branch_name) ==
    IF branch_name = Release1 THEN 2 ELSE 3

\* the UTC calendar day (days since 1970-01-01) each commit was made on
CommitDay(commit_id) ==
    CASE commit_id = 1 -> 1 [] commit_id = 2 -> 5 [] commit_id = 3 -> 8 [] commit_id = 4 -> 9

IsRow(x) == Len(x) = 4

InDeleteBatch == delete_branches_flag /\ pc = "batch"

\* the persisted records of the repository the delete-day run is at
Persisted == data[repository]

\* the inactivity the reconciler is to use for a persisted record, given the listing
UsedInactivity(rec, _b) ==
    IF _b.latestCommit = rec[2] THEN rec[3] ELSE today - CommitDay(_b.latestCommit)

\* the record is MARKED FOR DELETION and, by the listing, still beyond its threshold
Deletable(rec) ==
    /\ rec[4] = MARKED
    /\ \E j \in 1..Len(branches) :
          /\ branches[j].displayId = rec[1]
          /\ UsedInactivity(rec, branches[j]) > ExpectedThreshold(rec[1])

DeleteOps == {"permission_list", "permission_delete", "branch_delete"}

---------------------------------------------------------------------------
(* C1: on delete day a permission or branch delete call is issued for a    *)
(* persisted record only if the inactivity the reconciler uses (stored if  *)
(* the listed commit equals the persisted one, recomputed otherwise) is    *)
(* greater than the threshold and the persisted status is MARKED FOR       *)
(* DELETION; every outcome row with status DELETED satisfies both.         *)
C1_DeleteOnlyStaleAndMarked ==
    InDeleteBatch =>
        /\ \A k \in 1..Len(calls) :
              (calls[k].op \in DeleteOps /\ calls[k].repository = repository) =>
                  \E i \in 1..Len(Persisted) :
                      /\ Persisted[i][1] = calls[k].branch
                      /\ Deletable(Persisted[i])
        /\ \A i \in 1..Len(taskResult) :
              (IsRow(taskResult[i]) /\ taskResult[i][4] = DELETED) =>
                  /\ Deletable(Persisted[i])
                  /\ taskResult[i][1] = Persisted[i][1]
                  /\ taskResult[i][3] > ExpectedThreshold(Persisted[i][1])

\* a branch whose commit changed since the scan is deleted on the recomputed inactivity
C1_Witness ==
    /\ InDeleteBatch
    /\ \E i \in 1..Len(taskResult), j \in 1..Len(branches) :
          /\ IsRow(taskResult[i])
          /\ taskResult[i][4] = DELETED
          /\ branches[j].displayId = taskResult[i][1]
          /\ branches[j].latestCommit # Persisted[i][2]

---------------------------------------------------------------------------
(* C2: a branch flagged MARKED FOR DELETION on scan day that receives a    *)
(* new commit, within its threshold, at any moment before its branch       *)
(* delete call is issued is never deleted by the delete-day run.           *)

\* when call k was issued, the branch pointed to a commit other than the persisted
\* one, no older than the branch's threshold
RecentCommitAt(k) ==
    /\ calls[k].tip # 0
    /\ calls[k].tip # calls[k].commit
    /\ today - CommitDay(calls[k].tip) <= ExpectedThreshold(calls[k].branch)

C2_NeverDeletedAfterNewCommit ==
    delete_branches_flag =>
        \A k \in 1..Len(calls) :
            (calls[k].op = "branch_delete" /\ calls[k].ok) => ~RecentCommitAt(k)

---------------------------------------------------------------------------
(* C3: for every branch-delete call, the permission listing and the delete *)
(* of every rule that matches the branch come before it and succeeded; a   *)
(* branch with a failed permission listing or a failed rule delete gets no *)
(* branch-delete call.                                                     *)

SameBranch(j, k) ==
    calls[j].repository = calls[k].repository /\ calls[j].branch = calls[k].branch

C3_PermissionsBeforeBranch ==
    \A k \in 1..Len(calls) :
        calls[k].op = "branch_delete" =>
            /\ \E j \in 1..(k - 1) :
                  calls[j].op = "permission_list" /\ SameBranch(j, k) /\ calls[j].ok
            /\ \A i \in 1..Len(InitPerms[calls[k].repository]) :
                  InitPerms[calls[k].repository][i].displayId = calls[k].branch =>
                      \E j \in 1..(k - 1) :
                          /\ calls[j].op = "permission_delete"
                          /\ SameBranch(j, k)
                          /\ calls[j].commit = InitPerms[calls[k].repository][i].id
                          /\ calls[j].ok
            /\ \A j \in 1..Len(calls) :
                  (calls[j].op \in {"permission_list", "permission_delete"} /\ SameBranch(j, k))
                      => (calls[j].ok /\ j < k)

\* a branch with two matching rules is deleted after both rule deletes
C3_Witness ==
    /\ \E k \in 1..Len(calls) :
          /\ calls[k].op = "branch_delete"
          /\ calls[k].ok
          /\ Cardinality({j \in 1..(k - 1) :
                            calls[j].op = "permission_delete" /\ SameBranch(j, k)}) = 2

\* a rule delete failed and the coroutine ended there
C3_WitnessFailure ==
    \E j \in 1..Len(calls) :
        /\ calls[j].op = "permission_delete"
        /\ ~calls[j].ok
        /\ Len(calls) > j

---------------------------------------------------------------------------
(* C4: write_to_json(repository, results) stores results under repository  *)
(* only if the repository is absent from the persisted state or the stored *)
(* list has another length, otherwise the stored entry is kept, and the    *)
(* entries of the other repositories are kept; a second call in a row for  *)
(* the same repository with a list of the same length leaves the document  *)
(* as the first call left it.                                              *)

\* the last call found its repository absent, or stored with another length
LastWriteReplaces ==
    \/ ~lastWrite.existed
    \/ lastWrite.repository \notin DOMAIN lastWrite.before
    \/ Len(lastWrite.before[lastWrite.repository]) # Len(lastWrite.results)

\* the last call repeats the repository and the length of the call before it
LastWriteRepeats ==
    /\ lastWrite.n >= 2
    /\ lastWrite.repository = lastWrite.prevRepository
    /\ Len(lastWrite.results) = lastWrite.prevLen

C4_MergeRule ==
    lastWrite.n >= 1 =>
        /\ fileExists
        /\ DOMAIN data = (IF lastWrite.existed THEN DOMAIN lastWrite.before ELSE {})
                            \cup {lastWrite.repository}
        /\ data[lastWrite.repository] =
              IF LastWriteReplaces THEN lastWrite.results
              ELSE lastWrite.before[lastWrite.repository]
        /\ \A r \in DOMAIN data \ {lastWrite.repository} : data[r] = lastWrite.before[r]
        /\ LastWriteRepeats => data = lastWrite.before

\* a second call in a row, same repository, same length, other rows than the stored ones
C4_Witness ==
    /\ LastWriteRepeats
    /\ lastWrite.results # data[lastWrite.repository]
    /\ Len(lastWrite.results) > 0

---------------------------------------------------------------------------
(* C5: master, develop and the configured excluded names appear in no      *)
(* classification result, in no persisted record, in no delete-day outcome *)
(* and in no reported row, whatever their commit age; no commit lookup,    *)
(* permission call or branch delete is issued for them.                    *)

Excluded == {Master, Develop, Wip}

\* the rows of a log entry, below the header and the separator line
ReportedRows(entry) == SubSeq(entry[2], 3, Len(entry[2]))

NoExcludedRow(rows) ==
    \A i \in 1..Len(rows) : IsRow(rows[i]) => rows[i][1] \notin Excluded

C5_ExcludedNeverProcessed ==
    /\ NoExcludedRow(taskResult)
    /\ NoExcludedRow(results)
    /\ \A r \in DOMAIN data : NoExcludedRow(data[r])
    /\ \A i \in 1..Len(logfile) : NoExcludedRow(ReportedRows(logfile[i]))
    /\ \A k \in 1..Len(calls) :
          calls[k].op # "list_branches" => calls[k].branch \notin Excluded
    /\ \A r \in DOMAIN perms : \A i \in 1..Len(InitPerms[r]) :
          InitPerms[r][i].displayId \in Excluded => InList(InitPerms[r][i], perms[r])

\* a scan-day batch has run over a listing with master, older than every threshold,
\* and its rows are stored
C5_Witness ==
    /\ process_branches_flag
    /\ lastWrite.n >= 1
    /\ lastWrite.repository = RepoApp
    /\ Len(data[RepoApp]) > 0
    /\ \E j \in 1..Len(branches) :
          /\ branches[j].displayId = Master
          /\ today - CommitDay(branches[j].latestCommit) > ExpectedThreshold(Master)
          /\ j <= Len(taskResult)
          /\ Len(taskResult[j]) = 0

---------------------------------------------------------------------------
(* C6: every scan-day row carries the inactivity of its commit and is      *)
(* RETAINED exactly when that inactivity is at most the threshold of the   *)
(* branch (the table entry of the text before the first "/", else the      *)
(* default) and MARKED FOR DELETION exactly when it is greater; an         *)
(* inactivity equal to the threshold gives RETAINED.                       *)

\* the day the rows of state.json were computed on
ScanDayOfState == IF is_friday THEN today - 1 ELSE today

ClassifiedRight(row, t) ==
    /\ row[3] = t - CommitDay(row[2])
    /\ (row[4] = RETAINED) <=> (row[3] <= ExpectedThreshold(row[1]))
    /\ (row[4] = MARKED) <=> (row[3] > ExpectedThreshold(row[1]))

C6_InclusiveBoundary ==
    /\ process_branches_flag =>
          \A i \in 1..Len(taskResult) :
              IsRow(taskResult[i]) => ClassifiedRight(taskResult[i], today)
    /\ \A r \in DOMAIN data : \A i \in 1..Len(data[r]) :
          ClassifiedRight(data[r][i], ScanDayOfState)

\* a scan-day row whose inactivity equals its threshold, for a prefix of the table
\* and for a prefix that falls to the default
C6_Witness ==
    /\ process_branches_flag
    /\ \E i \in 1..Len(taskResult) :
          /\ IsRow(taskResult[i])
          /\ taskResult[i][1] = Release1
          /\ taskResult[i][3] = 2
          /\ taskResult[i][4] = RETAINED
    /\ \E i \in 1..Len(taskResult) :
          /\ IsRow(taskResult[i])
          /\ taskResult[i][1] = FeatureX
          /\ taskResult[i][3] > 3
          /\ taskResult[i][4] = MARKED

---------------------------------------------------------------------------
(* C7: every inactivity produced by the scan-day classification or by the  *)
(* delete-day recomputation is at least 0; a commit dated after today      *)
(* gives 0.                                                                *)
C7_InactivityNeverNegative ==
    \A i \in 1..Len(taskResult) :
        IsRow(taskResult[i]) =>
            /\ taskResult[i][3] >= 0
            /\ (process_branches_flag /\ CommitDay(taskResult[i][2]) > today)
                  => taskResult[i][3] = 0

---------------------------------------------------------------------------
(* C8: on delete day a record that was MARKED FOR DELETION and is not      *)
(* deleted ends with outcome status RETAINED; no outcome row of a branch   *)
(* that is in the listing keeps the status MARKED FOR DELETION.            *)
C8_RecoveredIsRetained ==
    InDeleteBatch =>
        \A i \in 1..Len(taskResult) :
            IsRow(taskResult[i]) =>
                /\ (Persisted[i][4] = MARKED /\ taskResult[i][4] # DELETED)
                      => taskResult[i][4] = RETAINED
                /\ (listing_matches(taskResult[i][1]) # {})
                      => taskResult[i][4] # MARKED

---------------------------------------------------------------------------
(* C9: every persisted record yields one delete-day outcome row with       *)
(* status RETAINED, MARKED FOR DELETION or DELETED, also when its branch   *)
(* is no longer in the listing; the reconciler does not fail on such a     *)
(* branch.  (A coroutine whose remote call failed is left aside.)          *)

RemoteFailure == {"ValueError", "KeyError"}

C9_OneOutcomePerRecord ==
    InDeleteBatch =>
        \A i \in 1..Len(taskResult) :
            taskExc[i] \notin RemoteFailure =>
                /\ taskExc[i] = ""
                /\ IsRow(taskResult[i])
                /\ taskResult[i][1] = Persisted[i][1]
                /\ taskResult[i][4] \in {RETAINED, MARKED, DELETED}

---------------------------------------------------------------------------
(* C10: when the permission delete or the branch delete of one branch      *)
(* fails on delete day, the run continues: it ends normally, having        *)
(* reported the outcome rows of every repository of the state.             *)

OnlyDeleteCallsFailed ==
    /\ \E k \in 1..Len(calls) : ~calls[k].ok
    /\ \A k \in 1..Len(calls) :
          ~calls[k].ok => calls[k].op \in {"permission_delete", "branch_delete"}
    /\ lastError \in {"", "ValueError"}

C10_DeleteFailureIsPerBranch ==
    (delete_branches_flag /\ pc = "exited" /\ OnlyDeleteCallsFailed) =>
        /\ exitCode = 0
        /\ \A r \in DOMAIN data :
              Len(data[r]) > 0 => \E i \in 1..Len(logfile) : logfile[i][1] = r

---------------------------------------------------------------------------
(* C11: a failed branch listing is fatal for its repository only.  Once    *)
(* the listing of a repository has failed, no commit lookup, permission    *)
(* call or delete is issued for it, nothing is written for it to the       *)
(* state (scan day) or to the log, and the run proceeds: when failed       *)
(* listings are the only failures, the run ends normally after every       *)
(* repository in service was asked for its listing.                        *)

ListingFailed(r) ==
    \E k \in 1..Len(calls) :
        calls[k].op = "list_branches" /\ calls[k].repository = r /\ ~calls[k].ok

OnlyListingsFailed ==
    \A k \in 1..Len(calls) : ~calls[k].ok => calls[k].op = "list_branches"

C11_ListingFailureIsPerRepository ==
    \A i \in 1..Len(repositories) :
        (ListingFailed(repositories[i]) /\ OnlyListingsFailed) =>
            /\ \A k \in 1..Len(calls) :
                  calls[k].repository = repositories[i] => calls[k].op = "list_branches"
            /\ process_branches_flag => repositories[i] \notin DOMAIN data
            /\ \A e \in 1..Len(logfile) : logfile[e][1] # repositories[i]
            /\ pc = "exited" =>
                  /\ exitCode = 0
                  /\ \A j \in 1..Len(repositories) :
                        ~is_deprecated(repositories[j]) =>
                            \E k \in 1..Len(calls) :
                                /\ calls[k].op = "list_branches"
                                /\ calls[k].repository = repositories[j]

---------------------------------------------------------------------------
(* C12: a missing state is a first run, not an error.  read_from_json      *)
(* answers None without raising when there is no state file, and a run,    *)
(* on scan day or on delete day, whose remote calls all succeed and whose  *)
(* listings still hold every persisted branch does not abort because the   *)
(* state file, or the entry of a repository, is missing.                   *)

AllCallsOk == \A k \in 1..Len(calls) : calls[k].ok

C12_AbsenceIsFirstRun ==
    /\ read_from_json(FALSE, EmptyDoc).none
    /\ (pc = "exited" /\ AllCallsOk /\ lastError # "UnboundLocalError") =>
           exitCode = 0

---------------------------------------------------------------------------
(* C13: the state document is written atomically.  When the process is     *)
(* killed during write_to_json, the file holds either the document it      *)
(* held before the call or the complete new one, so the entry of every     *)
(* other repository can still be read and is what it was before.           *)

OldDocumentOnDisk ==
    /\ fileExists = lastWrite.existed
    /\ lastWrite.existed => disk = json_dump(lastWrite.before)

NewDocumentOnDisk ==
    fileExists /\ disk = json_dump(pending_document)

C13_WriteIsAtomic ==
    (pc = "killed" /\ lastWrite.existed) =>
        /\ OldDocumentOnDisk \/ NewDocumentOnDisk
        /\ \A r \in (DOMAIN lastWrite.before) \ {lastWrite.repository} :
              /\ json_load_ok(disk)
              /\ r \in DOMAIN json_load(disk)
              /\ json_load(disk)[r] = lastWrite.before[r]

---------------------------------------------------------------------------
(* C14: on delete day, for a persisted record whose commit in the listing  *)
(* equals the persisted commit, the stored inactivity is used as it is     *)
(* and no commit lookup is issued for the branch; if the record is         *)
(* RETAINED as well, its outcome row is the record itself and no remote    *)
(* call at all (lookup, permission, delete) is issued for the branch.      *)

\* the commit the listing of the current repository shows for a branch (0: not listed)
ListedCommit(branch_name) ==
    IF listing_matches(branch_name) = {} THEN 0
    ELSE branches[CHOOSE k \in listing_matches(branch_name) : TRUE].latestCommit

\* the calls of this run that name a branch of the current repository
CallsFor(branch_name) ==
    {k \in 1..Len(calls) : calls[k].repository = repository /\ calls[k].branch = branch_name}

C14_UnchangedCommitReusesStored ==
    InDeleteBatch =>
        \A i \in 1..Len(Persisted) :
            ListedCommit(Persisted[i][1]) = Persisted[i][2] =>
                /\ \A k \in CallsFor(Persisted[i][1]) : calls[k].op # "commit_lookup"
                /\ (i = taskIdx /\ taskPc # "start") => taskDelta = Persisted[i][3]
                /\ (i <= Len(taskResult) /\ IsRow(taskResult[i])) =>
                       taskResult[i][3] = Persisted[i][3]
                /\ Persisted[i][4] = RETAINED =>
                       /\ CallsFor(Persisted[i][1]) = {}
                       /\ i <= Len(taskResult) => taskResult[i] = Persisted[i]

\* a RETAINED record with unchanged commit came out as it was stored, although its
\* inactivity, had it been recomputed today, would be beyond the threshold
C14_Witness ==
    /\ InDeleteBatch
    /\ \E i \in 1..Len(taskResult) :
          /\ ListedCommit(Persisted[i][1]) = Persisted[i][2]
          /\ Persisted[i][4] = RETAINED
          /\ taskResult[i] = Persisted[i]
          /\ today - CommitDay(Persisted[i][2]) > ExpectedThreshold(Persisted[i][1])

---------------------------------------------------------------------------
(* C15: on delete day, for a persisted record whose commit in the listing  *)
(* differs from the persisted commit, the reconciler issues exactly one    *)
(* commit lookup, for the commit of the listing, and decides on the        *)
(* inactivity recomputed from that commit's date against today: the row    *)
(* carries the recomputed value, and the delete sequence is entered        *)
(* exactly when the record is MARKED FOR DELETION and the recomputed       *)
(* value is greater than the threshold.                                    *)

LookupsFor(branch_name) ==
    {k \in CallsFor(branch_name) : calls[k].op = "commit_lookup"}

\* the inactivity of a commit as of today
RecomputedInactivity(commit_id) == today - CommitDay(commit_id)

\* the coroutine of record i has left the reconciliation of lines 332-354
Reconciled(i) == i < taskIdx \/ (i = taskIdx /\ taskPc # "start")

C15_ChangedCommitIsRecomputed ==
    InDeleteBatch =>
        \A i \in 1..Len(Persisted) :
            LET rec == Persisted[i]
                listed == ListedCommit(rec[1])
                stale == /\ rec[4] = MARKED
                         /\ RecomputedInactivity(listed) > ExpectedThreshold(rec[1])
            IN  (listed # 0 /\ listed # rec[2]) =>
                    /\ Cardinality(LookupsFor(rec[1])) = IF Reconciled(i) THEN 1 ELSE 0
                    /\ \A k \in LookupsFor(rec[1]) : calls[k].commit = listed
                    /\ (i = taskIdx /\ taskPc # "start") =>
                           taskDelta = RecomputedInactivity(listed) /\ stale
                    /\ (\E k \in CallsFor(rec[1]) : calls[k].op \in DeleteOps) => stale
                    /\ (i <= Len(taskResult) /\ IsRow(taskResult[i])) =>
                           /\ taskResult[i][3] = RecomputedInactivity(listed)
                           /\ taskResult[i][4] = DELETED <=> stale

\* a record stored as MARKED FOR DELETION, beyond its threshold by the stored value,
\* was looked up once after a push and came out undeleted on the recomputed value
C15_Witness ==
    /\ InDeleteBatch
    /\ \E i \in 1..Len(taskResult) :
          /\ IsRow(taskResult[i])
          /\ ListedCommit(Persisted[i][1]) \notin {0, Persisted[i][2]}
          /\ Persisted[i][4] = MARKED
          /\ Persisted[i][3] > ExpectedThreshold(Persisted[i][1])
          /\ taskResult[i][3] <= ExpectedThreshold(Persisted[i][1])
          /\ taskResult[i][4] # DELETED
          /\ Cardinality(LookupsFor(Persisted[i][1])) = 1

---------------------------------------------------------------------------
(* C16: the results of a batch keep the order of its inputs and are all    *)
(* or nothing.  The i-th result is the row of the i-th input; after a      *)
(* scan-day batch in which no coroutine raised, the rows persisted (and    *)
(* reported) for the repository are the branches of the listing in the     *)
(* listing's order, the excluded ones left out, one row each; after a      *)
(* batch in which a coroutine raised, nothing is persisted or reported     *)
(* for the repository.                                                     *)

\* name and commit of the i-th input of the batch
InputName(i)   == IF process_branches_flag THEN tasks[i].displayId ELSE tasks[i][1]
InputCommit(i) == IF process_branches_flag THEN tasks[i].latestCommit ELSE tasks[i][2]

\* the names of the listing in its order, the excluded ones left out
ListedNotExcluded ==
    SelectSeq([k \in 1..Len(branches) |-> branches[k].displayId],
              LAMBDA b : b \notin Excluded)

\* a scan-day batch has just been gathered without exception and written
ScanBatchWritten == process_branches_flag /\ pc = "loop" /\ lastWrite.n >= 1

C16_ResultsInInputOrder ==
    /\ pc = "batch" =>
          /\ Len(taskResult) = taskIdx - 1
          /\ \A i \in 1..Len(taskResult) :
                IsRow(taskResult[i]) =>
                    /\ taskResult[i][1] = InputName(i)
                    /\ taskResult[i][2] = InputCommit(i)
    /\ ScanBatchWritten =>
          LET rows == data[lastWrite.repository]
          IN  /\ rows = lastWrite.results
              /\ rows = results
              /\ Len(rows) = Len(ListedNotExcluded)
              /\ \A k \in 1..Len(rows) :
                    /\ rows[k][1] = ListedNotExcluded[k]
                    /\ rows[k][2] = ListedCommit(rows[k][1])
              /\ Len(rows) > 0 =>
                    logfile[Len(logfile)] = <<lastWrite.repository, format_data(rows)>>
    /\ (pc = "exited" /\ raised # {}) =>
          /\ exitCode = 1
          /\ process_branches_flag => repository \notin DOMAIN data
          /\ \A e \in 1..Len(logfile) : logfile[e][1] # repository

\* a listing with an excluded branch and two others was scanned and written in order
C16_Witness ==
    /\ ScanBatchWritten
    /\ Len(data[lastWrite.repository]) = 2
    /\ Len(branches) = 3
    /\ branches[1].displayId \in Excluded
    /\ data[lastWrite.repository][1][1] = branches[2].displayId
    /\ data[lastWrite.repository][2][1] = branches[3].displayId

---------------------------------------------------------------------------
(* C17: a delete-day run never writes the state document.  No step of a    *)
(* delete-day run changes results/state.json, so the document after the    *)
(* run is the one before it: it holds no DELETED status, and the record    *)
(* of a branch the run deleted is still there for the next run.            *)

NoDeletedStatusInState ==
    \A r \in DOMAIN data : \A i \in 1..Len(data[r]) : data[r][i][4] # DELETED

C17_DeleteDayNeverWrites ==
    /\ [](delete_branches_flag => NoDeletedStatusInState)
    /\ [][delete_branches_flag =>
            (data' = data /\ fileExists' = fileExists /\ disk' = disk
             /\ lastWrite' = lastWrite)]_vars

\* a delete-day run ended normally after deleting a branch that the state still
\* lists as MARKED FOR DELETION
C17_Witness ==
    /\ delete_branches_flag
    /\ pc = "exited"
    /\ exitCode = 0
    /\ \E e \in 1..Len(logfile) :
          \E k \in 1..Len(ReportedRows(logfile[e])) :
              LET row == ReportedRows(logfile[e])[k]
                  r == logfile[e][1]
              IN  /\ row[4] = DELETED
                  /\ live[r][row[1]] = 0
                  /\ \E i \in 1..Len(data[r]) :
                        data[r][i][1] = row[1] /\ data[r][i][4] = MARKED

---------------------------------------------------------------------------
(* C19: the coroutines of a batch run one at a time, in input order.  The  *)
(* remote calls of a batch are grouped by branch in the order of the       *)
(* inputs: no call for a branch is issued before every call for the        *)
(* branches in front of it has been made, and none for a branch whose      *)
(* coroutine has not started.  While a batch is in progress the state      *)
(* document is not written and the records read for the batch do not       *)
(* change.                                                                 *)

\* the position of a branch among the inputs of the batch
TaskPos(branch_name) ==
    CHOOSE i \in 1..Len(tasks) : InputName(i) = branch_name

\* the calls of the batch in progress: those that name a branch of the repository
BatchCalls ==
    {k \in 1..Len(calls) : calls[k].repository = repository /\ calls[k].op # "list_branches"}

CallsInInputOrder ==
    /\ \A k \in BatchCalls :
          \/ TaskPos(calls[k].branch) < taskIdx
          \/ TaskPos(calls[k].branch) = taskIdx /\ taskPc # "start"
    /\ \A k, l \in BatchCalls :
          k < l => TaskPos(calls[k].branch) <= TaskPos(calls[l].branch)

C19_OneTaskAtATime ==
    /\ [](pc = "batch" => CallsInInputOrder)
    /\ [][(pc = "batch" /\ pc' = "batch") =>
            (data' = data /\ fileExists' = fileExists /\ disk' = disk
             /\ lastWrite' = lastWrite /\ tasks' = tasks)]_vars

\* a delete-day batch made several calls for one branch and then a call for the next
C19_Witness ==
    /\ InDeleteBatch
    /\ \E k, l \in BatchCalls :
          /\ k + 1 < l
          /\ calls[k].branch = calls[k + 1].branch
          /\ TaskPos(calls[k].branch) < TaskPos(calls[l].branch)

---------------------------------------------------------------------------
(* C18: the start of a run.  Exactly one phase is selected, the delete     *)
(* phase on Friday and the scan phase on every other day; once the         *)
(* start-up is over the run is at the repository loop, the results         *)
(* directory exists, on scan day without the state of earlier runs and on  *)
(* delete day with the state file, if there was one, in place.             *)

StartupOver == pc \notin {"start", "mkdir"}

C18_StartupPreparesResults ==
    /\ process_branches_flag # delete_branches_flag
    /\ delete_branches_flag <=> weekday(today) = FridayWeekday
    /\ StartupOver =>
          /\ pc = "loop"
          /\ exitCode = -1
          /\ resultsDir
          /\ process_branches_flag => ~fileExists
          /\ (delete_branches_flag /\ fileExists) => disk = json_dump(data)

====
